---- MODULE Spec2Model ----
(***************************************************************************)
(* Model of triangle_program.py (classify_triangle, classify_batch) and of *)
(* basis_path_runner.py (compare).                                         *)
(*                                                                         *)
(* Numbers.  The sides are Python floats.  A float is modelled as a record *)
(* [k, m, e]: k = "fin" stands for the value m * 2^(-e) (m an integer),    *)
(* k = "inf" for an infinity of sign m, k = "nan" for NaN.  Every          *)
(* arithmetic operation rounds its exact result to FloatPrec significant   *)
(* bits, to nearest, ties to even, and overflows to an infinity above      *)
(* MaxFinite, as IEEE 754 arithmetic does.  IEEE double has 53 significant *)
(* bits and a largest finite value near 1.8e308; the model keeps the       *)
(* rounding rule and scales both numbers down so that the inputs can be    *)
(* enumerated.                                                             *)
(***************************************************************************)
EXTENDS Integers, Sequences, FiniteSets

\* Significant bits of the float format (53 in an IEEE double).
FloatPrec == 3

\* The largest finite float is (2^FloatPrec - 1) * 2^MaxExp.
MaxExp == 4

\* Input sides range over the floats n * 2^(-u) with -1 <= n <= MaxSide.
MaxSide == 28

\* The fine input lattice: u is 0 or UnitExp.
UnitExp == 15

\* Concurrent callers of classify_triangle.
NumCallers == 2

\* Rows of an input file.
MaxRows == 3

RECURSIVE Pow2(_)
Pow2(n) == IF n <= 0 THEN 1 ELSE 2 * Pow2(n - 1)

Abs(n) == IF n < 0 THEN -n ELSE n

MaxFinite == (Pow2(FloatPrec) - 1) * Pow2(MaxExp)

-----------------------------------------------------------------------------
(* Float values and IEEE arithmetic                                        *)

Fin(m, e) == [k |-> "fin", m |-> m, e |-> e]
Inf(s) == [k |-> "inf", m |-> s, e |-> 0]
NaN == [k |-> "nan", m |-> 0, e |-> 0]

Sign(n) == IF n < 0 THEN -1 ELSE 1

\* The least shift s with m \div 2^s < 2^FloatPrec (m >= 0).
RECURSIVE ShiftFor(_, _)
ShiftFor(m, s) == IF m \div Pow2(s) < Pow2(FloatPrec) THEN s ELSE ShiftFor(m, s + 1)

\* m >= 0 rounded to FloatPrec significant bits, to nearest, ties to even.
RoundMag(m) ==
    LET s == ShiftFor(m, 0)
        q == m \div Pow2(s)
        r == m % Pow2(s)
        half == IF s = 0 THEN 0 ELSE Pow2(s - 1)
        up == s > 0 /\ (r > half \/ (r = half /\ q % 2 = 1))
    IN (IF up THEN q + 1 ELSE q) * Pow2(s)

\* Whether m * 2^(-e) (m >= 0) exceeds MaxFinite: m > MaxFinite * 2^e, halving
\* m (rounding up) once per factor of two.
RECURSIVE ExceedsMax(_, _)
ExceedsMax(m, e) ==
    IF m <= MaxFinite THEN FALSE
    ELSE IF e = 0 THEN TRUE
    ELSE ExceedsMax((m + 1) \div 2, e - 1)

\* The float nearest to the exact value n * 2^(-e).
Round(n, e) ==
    LET r == RoundMag(Abs(n))
    IN IF ExceedsMax(r, e) THEN Inf(Sign(n)) ELSE Fin(Sign(n) * r, e)

\* x + y (operands of one lattice).
FAdd(x, y) ==
    IF x.k = "nan" \/ y.k = "nan" THEN NaN
    ELSE IF x.k = "inf" /\ y.k = "inf" THEN (IF x.m = y.m THEN x ELSE NaN)
    ELSE IF x.k = "inf" THEN x
    ELSE IF y.k = "inf" THEN y
    ELSE Round(x.m + y.m, x.e)

FNeg(x) == IF x.k = "nan" THEN x ELSE [x EXCEPT !.m = -x.m]

\* x - y.
FSub(x, y) == FAdd(x, FNeg(y))

\* x * y; the product of two lattice values lies on the product lattice.
FMul(x, y) ==
    IF x.k = "nan" \/ y.k = "nan" THEN NaN
    ELSE IF x.k = "inf" \/ y.k = "inf" THEN
        (IF x.m = 0 \/ y.m = 0 THEN NaN ELSE Inf(Sign(x.m) * Sign(y.m)))
    ELSE Round(x.m * y.m, x.e + y.e)

\* abs(x).
FAbs(x) == IF x.k = "nan" THEN x ELSE [x EXCEPT !.m = Abs(x.m)]

\* x <= y (operands of one lattice); any comparison with NaN is false.
FLe(x, y) ==
    IF x.k = "nan" \/ y.k = "nan" THEN FALSE
    ELSE IF x.k = "inf" THEN (x.m < 0 \/ (y.k = "inf" /\ y.m > 0))
    ELSE IF y.k = "inf" THEN y.m > 0
    ELSE x.m <= y.m

\* m * 2^(-e) < 1e-9 for an integer m >= 0: 1e-9 = 2^(-9) * 5^(-9), so the
\* test is m * 5^9 < 2^(e-9).
BelowEps(m, e) ==
    m = 0 \/ (e >= 9 /\ m <= (Pow2(e - 9) - 1) \div 1953125)

\* x < 1e-9.
FLtEps(x) ==
    IF x.k = "nan" THEN FALSE
    ELSE IF x.k = "inf" THEN x.m < 0
    ELSE x.m < 0 \/ BelowEps(x.m, x.e)

-----------------------------------------------------------------------------
(* triangle_program.py                                                     *)

Labels == {"INVALID_NONPOSITIVE", "INVALID_TRIANGLE_INEQUALITY", "EQUILATERAL",
           "ISOSCELES", "RIGHT_SCALENE", "SCALENE"}

\* sorted() left out: the sides in argument order.
Unsorted(s) == s

\* s with v inserted before the first element greater than v.
RECURSIVE Insert(_, _)
Insert(s, v) ==
    IF s = <<>> THEN <<v>>
    ELSE IF v < Head(s) THEN <<v>> \o s
    ELSE <<Head(s)>> \o Insert(Tail(s), v)

\* sorted(s): the elements of s in ascending order.
RECURSIVE Sorted(_)
Sorted(s) == IF s = <<>> THEN <<>> ELSE Insert(Sorted(SubSeq(s, 1, Len(s) - 1)), s[Len(s)])

\* any(x < 0 for x in sides): zero passes the guard.
AnyNegative(sides) == \E i \in 1..Len(sides) : sides[i] < 0

\* any(x <= 0 for x in sides)
AnyNonPositive(sides) == \E i \in 1..Len(sides) : sides[i] <= 0

\* x + y < z: the degenerate triangle passes.
InequalityFailsStrict(x, y, z, u) ==
    LET sum == FAdd(Fin(x, u), Fin(y, u))
    IN FLe(sum, Fin(z, u)) /\ sum # Fin(z, u)

\* x + y <= z on floats of the lattice 2^(-u)
InequalityFails(x, y, z, u) == FLe(FAdd(Fin(x, u), Fin(y, u)), Fin(z, u))

\* a == b: the third side is not compared.
AllEqualFirstPair(a, b, c) == a = b

\* a == b == c
AllEqual(a, b, c) == a = b /\ b = c

\* is_iso = a == b or b == c or a == c
IsIso(a, b, c) == a = b \/ b = c \/ a = c

\* abs(x * x + z * z - y * y) < 1e-9: the middle side taken for the hypotenuse.
IsRightWrongHypotenuse(x, y, z, u) ==
    LET fx == Fin(x, u)
        fy == Fin(y, u)
        fz == Fin(z, u)
    IN FLtEps(FAbs(FSub(FAdd(FMul(fx, fx), FMul(fz, fz)), FMul(fy, fy))))

\* is_right = abs(x * x + y * y - z * z) < 1e-9 on floats of the lattice 2^(-u)
IsRight(x, y, z, u) ==
    LET fx == Fin(x, u)
        fy == Fin(y, u)
        fz == Fin(z, u)
    IN FLtEps(FAbs(FSub(FAdd(FMul(fx, fx), FMul(fy, fy)), FMul(fz, fz))))

\* classify_triangle without its last return: a scalene triangle falls off the
\* end of the function, which returns None.
classify_triangle_no_default(a, b, c, u) ==
    LET sides == <<a, b, c>>
        s == Sorted(sides)
    IN IF AnyNonPositive(sides) THEN "INVALID_NONPOSITIVE"
       ELSE IF InequalityFails(s[1], s[2], s[3], u) THEN "INVALID_TRIANGLE_INEQUALITY"
       ELSE IF AllEqual(a, b, c) THEN "EQUILATERAL"
       ELSE IF IsIso(a, b, c) THEN "ISOSCELES"
       ELSE IF IsRight(s[1], s[2], s[3], u) THEN "RIGHT_SCALENE"
       ELSE "None"

\* classify_triangle(a * 2^(-u), b * 2^(-u), c * 2^(-u))
classify_triangle(a, b, c, u) ==
    LET sides == <<a, b, c>>
        s == Sorted(sides)
    IN IF AnyNonPositive(sides) THEN "INVALID_NONPOSITIVE"
       ELSE IF InequalityFails(s[1], s[2], s[3], u) THEN "INVALID_TRIANGLE_INEQUALITY"
       ELSE IF AllEqual(a, b, c) THEN "EQUILATERAL"
       ELSE IF IsIso(a, b, c) THEN "ISOSCELES"
       ELSE IF IsRight(s[1], s[2], s[3], u) THEN "RIGHT_SCALENE"
       ELSE "SCALENE"

\* float(text) for a decimal text that denotes the integer n, |n| <= MaxFinite
ParseFloat(n) == Round(n, 0).m

\* One iteration of classify_batch's loop: the (case_id, label) pair of a row.
ClassifyRow(row) ==
    [case_id |-> row.case_id,
     label |-> classify_triangle(ParseFloat(row.a), ParseFloat(row.b), ParseFloat(row.c), 0)]

-----------------------------------------------------------------------------
(* basis_path_runner.py                                                    *)

Missing == "<missing>"

\* expected.get(case_id, "<missing>")
Get(expected, case_id) ==
    IF case_id \in DOMAIN expected THEN expected[case_id] ELSE Missing

\* f"{case_id}: expected {exp}, got {actual}"
Mismatch(case_id, exp, actual) ==
    case_id \o ": expected " \o exp \o ", got " \o actual

\* compare skipping the results whose case_id the table lacks.
CompareOneSkipMissing(mismatches, result, expected) ==
    IF result.case_id \notin DOMAIN expected THEN mismatches
    ELSE IF result.label # expected[result.case_id]
    THEN Append(mismatches, Mismatch(result.case_id, expected[result.case_id], result.label))
    ELSE mismatches

\* One iteration of compare's loop: mismatches after looking at one result.
CompareOne(mismatches, result, expected) ==
    LET exp == Get(expected, result.case_id)
    IN IF result.label # exp
       THEN Append(mismatches, Mismatch(result.case_id, exp, result.label))
       ELSE mismatches

-----------------------------------------------------------------------------
(* State                                                                   *)

VARIABLES
    a, b, c,      \* the arguments of the call, in units of 2^(-unit)
    unit,
    pc,           \* "call" before classify_triangle returns, "done" after
    label,        \* the returned label
    frames,       \* concurrent calls: each caller's arguments, locals and position
    rows,         \* the harness: the rows read from the input file
    expected,     \* the expected-label table, keyed by case_id
    results,      \* classify_batch's list of (case_id, label)
    idx,          \* the loop index of classify_batch, then of compare
    mismatches,   \* compare's list
    failures,     \* compare's count
    hpc           \* the harness's position

classVars == <<a, b, c, unit, pc, label>>
harnessVars == <<rows, expected, results, idx, mismatches, failures, hpc>>
vars == <<a, b, c, unit, pc, label, frames, rows, expected, results, idx,
          mismatches, failures, hpc>>

\* Whether the integer n has at most FloatPrec significant bits.
Representable(n) == RoundMag(Abs(n)) = Abs(n)

\* The sides tried: zero, a negative value, the small floats, the largest float.
Sides == {n \in (-1)..MaxSide : Representable(n)} \cup {MaxFinite}

Units == {0, UnitExp}

\* One test vector per independent path P1..P6.
BasisRows ==
    << [case_id |-> "P1", a |-> 0, b |-> 1, c |-> 1],
       [case_id |-> "P2", a |-> 1, b |-> 1, c |-> 2],
       [case_id |-> "P3", a |-> 3, b |-> 3, c |-> 3],
       [case_id |-> "P4", a |-> 3, b |-> 3, c |-> 4],
       [case_id |-> "P5", a |-> 3, b |-> 4, c |-> 5],
       [case_id |-> "P6", a |-> 2, b |-> 3, c |-> 4] >>

Callers == 1..NumCallers

IdleFrame ==
    [pc |-> "idle", a |-> 0, b |-> 0, c |-> 0, x |-> 0, y |-> 0, z |-> 0,
     is_iso |-> FALSE, is_right |-> FALSE, ret |-> "none"]

CallsIdle == frames = [p \in Callers |-> IdleFrame]

HarnessIdle ==
    /\ rows = <<>>
    /\ expected = <<>>
    /\ results = <<>>
    /\ idx = 0
    /\ mismatches = <<>>
    /\ failures = 0
    /\ hpc = "off"

-----------------------------------------------------------------------------
(* Spec: one call of classify_triangle on every input of the domain        *)

Init ==
    /\ a \in Sides
    /\ b \in Sides
    /\ c \in Sides
    /\ unit \in Units
    /\ pc = "call"
    /\ label = "none"
    /\ CallsIdle
    /\ HarnessIdle

Call ==
    /\ pc = "call"
    /\ label' = classify_triangle(a, b, c, unit)
    /\ pc' = "done"
    /\ UNCHANGED <<a, b, c, unit, frames, harnessVars>>

Next == Call

Spec == Init /\ [][Next]_vars

-----------------------------------------------------------------------------
(* SpecCalls: interleaved calls of classify_triangle, statement by         *)
(* statement; every caller has its own frame                               *)

CallArgs == {<<BasisRows[i].a, BasisRows[i].b, BasisRows[i].c>> : i \in 1..Len(BasisRows)}

\* The frame of caller p replaced by f.
SetFrame(p, f) == frames' = [frames EXCEPT ![p] = f]

Return(f, lbl) == [f EXCEPT !.pc = "done", !.ret = lbl]

Invoke(p) ==
    /\ frames[p].pc \in {"idle", "done"}
    /\ \E t \in CallArgs :
         SetFrame(p, [IdleFrame EXCEPT !.pc = "d1", !.a = t[1], !.b = t[2], !.c = t[3]])
    /\ UNCHANGED <<classVars, harnessVars>>

Decision1(p) ==
    LET f == frames[p]
    IN /\ f.pc = "d1"
       /\ SetFrame(p, IF AnyNonPositive(<<f.a, f.b, f.c>>)
                      THEN Return(f, "INVALID_NONPOSITIVE")
                      ELSE [f EXCEPT !.pc = "sort"])
       /\ UNCHANGED <<classVars, harnessVars>>

SortSharedLocals(p) ==
    LET f == frames[p]
        s == Sorted(<<f.a, f.b, f.c>>)
    IN /\ f.pc = "sort"
       /\ frames' = [q \in Callers |->
                       [frames[q] EXCEPT !.x = s[1], !.y = s[2], !.z = s[3],
                                         !.pc = IF q = p THEN "d2" ELSE @]]
       /\ UNCHANGED <<classVars, harnessVars>>

SortSides(p) ==
    LET f == frames[p]
        s == Sorted(<<f.a, f.b, f.c>>)
    IN /\ f.pc = "sort"
       /\ SetFrame(p, [f EXCEPT !.x = s[1], !.y = s[2], !.z = s[3], !.pc = "d2"])
       /\ UNCHANGED <<classVars, harnessVars>>

Decision2(p) ==
    LET f == frames[p]
    IN /\ f.pc = "d2"
       /\ SetFrame(p, IF InequalityFails(f.x, f.y, f.z, 0)
                      THEN Return(f, "INVALID_TRIANGLE_INEQUALITY")
                      ELSE [f EXCEPT !.pc = "d3"])
       /\ UNCHANGED <<classVars, harnessVars>>

Decision3(p) ==
    LET f == frames[p]
    IN /\ f.pc = "d3"
       /\ SetFrame(p, IF AllEqual(f.a, f.b, f.c)
                      THEN Return(f, "EQUILATERAL")
                      ELSE [f EXCEPT !.pc = "iso"])
       /\ UNCHANGED <<classVars, harnessVars>>

ComputeIso(p) ==
    LET f == frames[p]
    IN /\ f.pc = "iso"
       /\ SetFrame(p, [f EXCEPT !.is_iso = IsIso(f.a, f.b, f.c), !.pc = "right"])
       /\ UNCHANGED <<classVars, harnessVars>>

ComputeRight(p) ==
    LET f == frames[p]
    IN /\ f.pc = "right"
       /\ SetFrame(p, [f EXCEPT !.is_right = IsRight(f.x, f.y, f.z, 0), !.pc = "d4"])
       /\ UNCHANGED <<classVars, harnessVars>>

Decision4(p) ==
    LET f == frames[p]
    IN /\ f.pc = "d4"
       /\ SetFrame(p, IF f.is_iso THEN Return(f, "ISOSCELES") ELSE [f EXCEPT !.pc = "d5"])
       /\ UNCHANGED <<classVars, harnessVars>>

Decision5(p) ==
    LET f == frames[p]
    IN /\ f.pc = "d5"
       /\ SetFrame(p, IF f.is_right THEN Return(f, "RIGHT_SCALENE") ELSE Return(f, "SCALENE"))
       /\ UNCHANGED <<classVars, harnessVars>>

CallsInit ==
    /\ a = 0
    /\ b = 0
    /\ c = 0
    /\ unit = 0
    /\ pc = "off"
    /\ label = "none"
    /\ CallsIdle
    /\ HarnessIdle

CallsNext ==
    \E p \in Callers :
        \/ Invoke(p)
        \/ Decision1(p)
        \/ SortSides(p)
        \/ Decision2(p)
        \/ Decision3(p)
        \/ ComputeIso(p)
        \/ ComputeRight(p)
        \/ Decision4(p)
        \/ Decision5(p)

SpecCalls == CallsInit /\ [][CallsNext]_vars

-----------------------------------------------------------------------------
(* SpecHarness: main() of basis_path_runner.py: classify_batch over the    *)
(* rows, then compare against the expected table                           *)

CaseIds == {"T1", "T2"}

RowTexts == {<<3, 3, 3>>, <<2, 3, 4>>, <<9, 9, 1>>}

Cases == {[case_id |-> i, a |-> t[1], b |-> t[2], c |-> t[3]] : i \in CaseIds, t \in RowTexts}

RowLists == UNION {[1..n -> Cases] : n \in 0..MaxRows}

ExpectedValues == {"EQUILATERAL", "SCALENE", Missing}

ExpectedTables == UNION {[D -> ExpectedValues] : D \in SUBSET CaseIds}

HarnessInit ==
    /\ a = 0
    /\ b = 0
    /\ c = 0
    /\ unit = 0
    /\ pc = "off"
    /\ label = "none"
    /\ CallsIdle
    /\ rows \in RowLists \cup {BasisRows}
    /\ expected \in ExpectedTables
    /\ results = <<>>
    /\ idx = 1
    /\ mismatches = <<>>
    /\ failures = 0
    /\ hpc = "batch"

\* classify_batch: one iteration of the loop over the rows.
BatchStep ==
    /\ hpc = "batch"
    /\ idx <= Len(rows)
    /\ results' = Append(results, ClassifyRow(rows[idx]))
    /\ idx' = idx + 1
    /\ UNCHANGED <<classVars, frames, rows, expected, mismatches, failures, hpc>>

\* classify_batch returns; compare starts.
BatchReturn ==
    /\ hpc = "batch"
    /\ idx > Len(rows)
    /\ hpc' = "compare"
    /\ idx' = 1
    /\ UNCHANGED <<classVars, frames, rows, expected, results, mismatches, failures>>

\* compare: one iteration of the loop over the results.
CompareStep ==
    /\ hpc = "compare"
    /\ idx <= Len(results)
    /\ mismatches' = CompareOne(mismatches, results[idx], expected)
    /\ idx' = idx + 1
    /\ UNCHANGED <<classVars, frames, rows, expected, results, failures, hpc>>

\* compare returns len(mismatches), mismatches.
CompareReturn ==
    /\ hpc = "compare"
    /\ idx > Len(results)
    /\ failures' = Len(mismatches)
    /\ hpc' = "done"
    /\ UNCHANGED <<classVars, frames, rows, expected, results, idx, mismatches>>

HarnessNext == BatchStep \/ BatchReturn \/ CompareStep \/ CompareReturn

SpecHarness == HarnessInit /\ [][HarnessNext]_vars

-----------------------------------------------------------------------------
(* The claims.  The geometric conditions are read in exact arithmetic on   *)
(* the sides a, b, c (integers in units of 2^(-unit)).                     *)

Lo == CHOOSE v \in {a, b, c} : \A w \in {a, b, c} : v <= w
Hi == CHOOSE v \in {a, b, c} : \A w \in {a, b, c} : v >= w
Mid == a + b + c - Lo - Hi

Returned == pc = "done"
AllPositive == a > 0 /\ b > 0 /\ c > 0
ValidTriangle == AllPositive /\ Lo + Mid > Hi
ExactlyTwoEqual == Cardinality({a, b, c}) = 2
PairwiseDistinct == Cardinality({a, b, c}) = 3
\* |x^2 + y^2 - z^2| < 1e-9 for the sorted sides, computed exactly
PythagoreanWithinEps == BelowEps(Abs(Lo * Lo + Mid * Mid - Hi * Hi), 2 * unit)

\* C1: classify_triangle returns, for every triple of floats (zero, negative and
\* degenerate ones included), one of the six labels.
C1_ClosedResult == Returned => label \in Labels

C1_Witness == Returned /\ a = 0 /\ b = -1 /\ c = 2 /\ label \in Labels

\* C2: if at least one side is <= 0 the result is INVALID_NONPOSITIVE, whatever
\* the other two sides are.
C2_NonPositive ==
    (Returned /\ (a <= 0 \/ b <= 0 \/ c <= 0)) => label = "INVALID_NONPOSITIVE"

C2_Witness ==
    Returned /\ a = 5 /\ b = 0 /\ c = 5 /\ label = "INVALID_NONPOSITIVE"

\* C3: strictly positive sides whose two smallest sum (exactly) to at most the
\* largest give INVALID_TRIANGLE_INEQUALITY, the degenerate case included.
C3_TriangleInequality ==
    (Returned /\ AllPositive /\ Lo + Mid <= Hi) => label = "INVALID_TRIANGLE_INEQUALITY"

C3_Witness ==
    Returned /\ a = 1 /\ b = 2 /\ c = 1 /\ label = "INVALID_TRIANGLE_INEQUALITY"

\* C4: classify_triangle(a, a, a) is EQUILATERAL for every float a > 0, and
\* EQUILATERAL is returned only when the three sides are equal and positive.
C4_Equilateral ==
    /\ (Returned /\ a > 0 /\ a = b /\ b = c) => label = "EQUILATERAL"
    /\ (Returned /\ label = "EQUILATERAL") => (a > 0 /\ a = b /\ b = c)

\* The largest float: a + a overflows to infinity.
C4_Witness ==
    Returned /\ a = MaxFinite /\ b = a /\ c = a /\ unit = 0 /\ label = "EQUILATERAL"

\* C5: a valid triangle (positive sides, strict triangle inequality) with exactly
\* two equal sides is ISOSCELES, and RIGHT_SCALENE is never returned for a
\* triple with two equal sides.
C5_Isosceles ==
    /\ (Returned /\ ValidTriangle /\ ExactlyTwoEqual) => label = "ISOSCELES"
    /\ (Returned /\ IsIso(a, b, c)) => label # "RIGHT_SCALENE"

\* C6: a valid triangle with pairwise distinct sides is RIGHT_SCALENE exactly when
\* the sorted sides satisfy x^2 + y^2 = z^2 within 1e-9, and SCALENE otherwise.
C6_RightOrScalene ==
    (Returned /\ ValidTriangle /\ PairwiseDistinct) =>
        label = (IF PythagoreanWithinEps THEN "RIGHT_SCALENE" ELSE "SCALENE")

\* C7: the six permutations of the arguments get the same label.
C7_OrderIndependent ==
    Returned =>
        /\ classify_triangle(a, c, b, unit) = label
        /\ classify_triangle(b, a, c, unit) = label
        /\ classify_triangle(b, c, a, unit) = label
        /\ classify_triangle(c, a, b, unit) = label
        /\ classify_triangle(c, b, a, unit) = label

C7_Witness ==
    Returned /\ a = 5 /\ b = 3 /\ c = 4 /\ unit = 0 /\ label = "RIGHT_SCALENE"

\* The expected value compare uses for a result: the table's, or "<missing>".
ExpectedOrMissing(id) == IF id \in DOMAIN expected THEN expected[id] ELSE "<missing>"

\* The positions of the results whose label differs from that value.
MismatchIdx ==
    {i \in 1..Len(results) : results[i].label # ExpectedOrMissing(results[i].case_id)}

\* The k-th of these positions, in result order.
NthMismatch(k) ==
    CHOOSE i \in MismatchIdx : Cardinality({j \in MismatchIdx : j <= i}) = k

\* C8: compare reports every result whose case_id the expected table lacks as a
\* mismatch against "<missing>", and returns the number of results whose label
\* differs from the expected-or-"<missing>" value, listed in result order.
C8_Compare ==
    hpc = "done" =>
        /\ failures = Cardinality(MismatchIdx)
        /\ Len(mismatches) = failures
        /\ \A k \in 1..Len(mismatches) :
              LET r == results[NthMismatch(k)]
              IN mismatches[k] = r.case_id \o ": expected "
                                  \o ExpectedOrMissing(r.case_id) \o ", got " \o r.label
        /\ \A i \in 1..Len(results) :
              results[i].case_id \notin DOMAIN expected =>
                  \E k \in 1..Len(mismatches) :
                      mismatches[k] = results[i].case_id \o ": expected <missing>, got "
                                          \o results[i].label

\* A matching result between two results of an identifier the table lacks.
C8_Witness ==
    /\ hpc = "done"
    /\ Len(results) = 3
    /\ DOMAIN expected = {"T1"}
    /\ results[1].case_id = "T2"
    /\ results[2].case_id = "T1"
    /\ results[2].label = expected["T1"]
    /\ results[3].case_id = "T2"
    /\ failures = 2

\* The labels classify_batch has returned.
ResultLabels == {results[i].label : i \in 1..Len(results)}

\* C9: the six vectors of the basis-path suite, one per independent path, get
\* the six labels: every return of classify_triangle is reached.
C9_BasisPathCoverage ==
    (hpc \in {"compare", "done"} /\ rows = BasisRows) =>
        /\ ResultLabels = Labels
        /\ \A i, j \in 1..Len(results) : results[i].label = results[j].label => i = j

C9_Witness ==
    /\ hpc = "done"
    /\ Len(results) = 6
    /\ \A l \in Labels : \E i \in 1..6 : results[i].label = l

\* C10: whatever the interleaving of the callers, a call returns the label its
\* arguments get from classify_triangle alone.
C10_NoHiddenState ==
    \A p \in Callers :
        frames[p].pc = "done" =>
            frames[p].ret = classify_triangle(frames[p].a, frames[p].b, frames[p].c, 0)

\* Two finished calls with the same arguments, begun in either order.
C10_Witness ==
    /\ frames[1].pc = "done"
    /\ frames[2].pc = "done"
    /\ <<frames[1].a, frames[1].b, frames[1].c>> = <<3, 4, 5>>
    /\ <<frames[2].a, frames[2].b, frames[2].c>> = <<3, 4, 5>>
    /\ frames[1].ret = "RIGHT_SCALENE"
    /\ frames[2].ret = frames[1].ret

====
